---- MODULE Spec2Model ----
(***************************************************************************)
(* Flow-routing engine of interactive_map (archive/process_dem_flow.py):   *)
(* D8 flow direction, iterative flow accumulation with the runaway guard,  *)
(* one propagation pass taken in an arbitrary cell order, the extraction   *)
(* of flow lines and start points, the even sampling of a list, the        *)
(* pipeline of main that chains them after the fill of no-data cells, and  *)
(* the normalizer of main that rewrites the points into the 0-1 box.       *)
(*                                                                         *)
(* Numbers.  Accumulation values are float64 in the source; every value    *)
(* the algorithm produces is a sum of ones, far below 2^53, so they are    *)
(* exact integers and are modelled as integers.  The epsilon test          *)
(* abs(x) > 0.1 is written 10 * abs(x) > 1.  Elevations are small          *)
(* integers; a slope d / sqrt(q) (q = dr^2 + dc^2) is kept as the exact    *)
(* pair <<sgn(d) * d^2, q>> and two slopes are compared by cross           *)
(* multiplication, which orders them as the real quotients are ordered.    *)
(* A no-data elevation (NaN) is the empty tuple, a number e is <<e>>.      *)
(***************************************************************************)
EXTENDS Integers, Sequences, FiniteSets, TLC

VARIABLES rows, cols,      \* shape of the grid of the run
          dem,             \* elevation field (D8 resolver input)
          flow_dir,        \* direction field
          flow_acc,        \* accumulation field being propagated
          processed,       \* settled flags
          iteration,       \* index of the current pass (0-based)
          changed,         \* changed flag of the current pass
          i, j,            \* position of the row-major sweep
          pc,              \* position in the function being run
          out,             \* messages printed so far
          ret,             \* field returned by calculate_flow_accumulation
          acc0,            \* observation: flow_acc when the current pass began
          passes,          \* observation: changed flag of each finished pass
          todo,            \* cells not yet processed in an unordered pass
          seq_acc,         \* row-major result of the pass taken unordered
          proc0,           \* processed when the unordered pass began
          transform,       \* affine transform of the raster
          bounds,          \* bounding box of the raster, in half units like rio_xy
          threshold,       \* threshold of extract_flow_vectors
          spacing,         \* spacing of create_flow_start_points
          min_accumulation, \* min_accumulation of create_flow_start_points
          flow_lines,      \* list returned by extract_flow_vectors
          start_points,    \* list returned by create_flow_start_points
          items,           \* list given to sample_evenly
          max_count,       \* max_count given to sample_evenly
          indices,         \* observation: the indices sample_evenly selected
          sampled          \* list returned by sample_evenly

\* the variables of extraction and sampling
xvars == <<transform, bounds, threshold, spacing, min_accumulation, flow_lines, start_points,
           items, max_count, indices, sampled>>

vars == <<rows, cols, dem, flow_dir, flow_acc, processed, iteration, changed,
          i, j, pc, out, ret, acc0, passes, todo, seq_acc, proc0, xvars>>

\* nothing has been extracted or sampled, and nothing is set up for it
XIdle ==
    /\ transform = <<>>
    /\ bounds = <<>>
    /\ threshold = <<>>
    /\ spacing = 0
    /\ min_accumulation = <<>>
    /\ flow_lines = <<>>
    /\ start_points = <<>>
    /\ items = <<>>
    /\ max_count = 0
    /\ indices = <<>>
    /\ sampled = <<>>

----------------------------------------------------------------------------
(* Bounds of the model *)

\* a grid has at most MaxCells cells (every shape rows x cols within it)
MaxCells == 4
\* a direction field has at most MaxSources cells with a non-zero code
MaxSources == 2
\* an elevation grid is square, of side at most MaxDemSide
MaxDemSide == 3
\* elevations are no-data or 0 .. MaxElev
MaxElev == 1
\* the unordered pass is taken after at most MaxSeqPasses row-major passes
MaxSeqPasses == 1
\* a grid of the pipeline has at most MaxMainCells cells
MaxMainCells == 12
\* an accumulation field handed to create_flow_start_points has at most
\* MaxSeedSide rows and at most MaxSeedSide columns
MaxSeedSide == 4
\* spacing is 1 .. MaxSpacing
MaxSpacing == 2
\* a list given to sample_evenly has at most MaxLen items, and max_count is
\* at most MaxLen + 1
MaxLen == 10

----------------------------------------------------------------------------
(* Program constants *)

max_iterations == 50
Threshold == 1000000
ClipMax == 1000000

Codes == {0, 1, 2, 4, 8, 16, 32, 64, 128}

\* mutant of dir_to_offset: the offsets are (col, row)
dir_to_offset_ColRow ==
    (128 :> <<1, -1>>) @@ (1 :> <<1, 0>>) @@ (2 :> <<1, 1>>) @@ (4 :> <<0, 1>>) @@
    (8 :> <<-1, 1>>) @@ (16 :> <<-1, 0>>) @@ (32 :> <<-1, -1>>) @@ (64 :> <<0, -1>>)

dir_to_offset ==
    (128 :> <<-1, 1>>) @@ (1 :> <<0, 1>>) @@ (2 :> <<1, 1>>) @@ (4 :> <<1, 0>>) @@
    (8 :> <<1, -1>>) @@ (16 :> <<0, -1>>) @@ (32 :> <<-1, -1>>) @@ (64 :> <<-1, 0>>)

----------------------------------------------------------------------------
(* Grid helpers *)

Abs(x) == IF x < 0 THEN -x ELSE x

Cells(r, k) == (0 .. r - 1) \X (0 .. k - 1)

InBounds(r, k, n) == 0 <= n[1] /\ n[1] < r /\ 0 <= n[2] /\ n[2] < k

Ones(r, k) == [c \in Cells(r, k) |-> 1]

NoneProcessed(r, k) == [c \in Cells(r, k) |-> FALSE]

\* the downstream cell of c, or c itself when the code routes nowhere inside
\* the grid (code 0, a code outside the table, or a neighbour off the grid)
Downstream(fd, r, k, c) ==
    IF fd[c] \in DOMAIN dir_to_offset
    THEN LET n == <<c[1] + dir_to_offset[fd[c]][1], c[2] + dir_to_offset[fd[c]][2]>>
         IN  IF InBounds(r, k, n) THEN n ELSE c
    ELSE c

----------------------------------------------------------------------------
(* calculate_flow_accumulation: the body of the two inner loops for one    *)
(* cell c, on the record st = [flow_acc, processed, changed].              *)

\* mutant of ProcessCell: the source cell is reset to zero once pushed
ProcessCell_Drain(fd, r, k, st, c) ==
    IF fd[c] = 0 \/ st.processed[c] THEN st
    ELSE IF fd[c] \notin DOMAIN dir_to_offset THEN st
    ELSE LET n == <<c[1] + dir_to_offset[fd[c]][1], c[2] + dir_to_offset[fd[c]][2]>>
         IN  IF ~InBounds(r, k, n) THEN st
             ELSE IF st.flow_acc[n] > Threshold
                  THEN [st EXCEPT !.processed[c] = TRUE]
                  ELSE LET old_acc == st.flow_acc[n]
                           new_acc == old_acc + st.flow_acc[c]
                       IN  [flow_acc  |-> [st.flow_acc EXCEPT ![n] = new_acc, ![c] = 0],
                            processed |-> st.processed,
                            changed   |-> st.changed \/ 10 * Abs(new_acc - old_acc) > 1]

\* mutant of ProcessCell: the guard tests the source cell's own value
ProcessCell_GuardOnSource(fd, r, k, st, c) ==
    IF fd[c] = 0 \/ st.processed[c] THEN st
    ELSE IF fd[c] \notin DOMAIN dir_to_offset THEN st
    ELSE LET n == <<c[1] + dir_to_offset[fd[c]][1], c[2] + dir_to_offset[fd[c]][2]>>
         IN  IF ~InBounds(r, k, n) THEN st
             ELSE IF st.flow_acc[c] > Threshold
                  THEN [st EXCEPT !.processed[c] = TRUE]
                  ELSE LET old_acc == st.flow_acc[n]
                           new_acc == old_acc + st.flow_acc[c]
                       IN  [flow_acc  |-> [st.flow_acc EXCEPT ![n] = new_acc],
                            processed |-> st.processed,
                            changed   |-> st.changed \/ 10 * Abs(new_acc - old_acc) > 1]

\* mutant of ProcessCell: a source is skipped at the guard without being
\* marked settled
ProcessCell_NoSettle(fd, r, k, st, c) ==
    IF fd[c] = 0 \/ st.processed[c] THEN st
    ELSE IF fd[c] \notin DOMAIN dir_to_offset THEN st
    ELSE LET n == <<c[1] + dir_to_offset[fd[c]][1], c[2] + dir_to_offset[fd[c]][2]>>
         IN  IF ~InBounds(r, k, n) THEN st
             ELSE IF st.flow_acc[n] > Threshold
                  THEN st
                  ELSE LET old_acc == st.flow_acc[n]
                           new_acc == old_acc + st.flow_acc[c]
                       IN  [flow_acc  |-> [st.flow_acc EXCEPT ![n] = new_acc],
                            processed |-> st.processed,
                            changed   |-> st.changed \/ 10 * Abs(new_acc - old_acc) > 1]

\* mutant of ProcessCell: the epsilon of the changed test is 1.0
ProcessCell_CoarseEpsilon(fd, r, k, st, c) ==
    IF fd[c] = 0 \/ st.processed[c] THEN st
    ELSE IF fd[c] \notin DOMAIN dir_to_offset THEN st
    ELSE LET n == <<c[1] + dir_to_offset[fd[c]][1], c[2] + dir_to_offset[fd[c]][2]>>
         IN  IF ~InBounds(r, k, n) THEN st
             ELSE IF st.flow_acc[n] > Threshold
                  THEN [st EXCEPT !.processed[c] = TRUE]
                  ELSE LET old_acc == st.flow_acc[n]
                           new_acc == old_acc + st.flow_acc[c]
                       IN  [flow_acc  |-> [st.flow_acc EXCEPT ![n] = new_acc],
                            processed |-> st.processed,
                            changed   |-> st.changed \/ Abs(new_acc - old_acc) > 1]

\* mutant of ProcessCell: the guard marks the cell settled and goes on to
\* the addition (no continue)
ProcessCell_SettleAndAdd(fd, r, k, st, c) ==
    IF fd[c] = 0 \/ st.processed[c] THEN st
    ELSE IF fd[c] \notin DOMAIN dir_to_offset THEN st
    ELSE LET n == <<c[1] + dir_to_offset[fd[c]][1], c[2] + dir_to_offset[fd[c]][2]>>
         IN  IF ~InBounds(r, k, n) THEN st
             ELSE LET old_acc == st.flow_acc[n]
                      new_acc == old_acc + st.flow_acc[c]
                  IN  [flow_acc  |-> [st.flow_acc EXCEPT ![n] = new_acc],
                       processed |-> IF old_acc > Threshold
                                     THEN [st.processed EXCEPT ![c] = TRUE]
                                     ELSE st.processed,
                       changed   |-> st.changed \/ 10 * Abs(new_acc - old_acc) > 1]

ProcessCell(fd, r, k, st, c) ==
    IF fd[c] = 0 \/ st.processed[c] THEN st
    ELSE IF fd[c] \notin DOMAIN dir_to_offset THEN st
    ELSE LET n == <<c[1] + dir_to_offset[fd[c]][1], c[2] + dir_to_offset[fd[c]][2]>>
         IN  IF ~InBounds(r, k, n) THEN st
             ELSE IF st.flow_acc[n] > Threshold
                  THEN [st EXCEPT !.processed[c] = TRUE]
                  ELSE LET old_acc == st.flow_acc[n]
                           new_acc == old_acc + st.flow_acc[c]
                       IN  [flow_acc  |-> [st.flow_acc EXCEPT ![n] = new_acc],
                            processed |-> st.processed,
                            changed   |-> st.changed \/ 10 * Abs(new_acc - old_acc) > 1]

\* mutant of Clip: only the lower end is clamped
Clip_NoCeiling(acc) ==
    [c \in DOMAIN acc |-> IF acc[c] < 0 THEN 0 ELSE acc[c]]

\* np.clip(flow_acc, 0, 1e6).astype(np.float32)
Clip(acc) ==
    [c \in DOMAIN acc |->
        IF acc[c] < 0 THEN 0 ELSE IF acc[c] > ClipMax THEN ClipMax ELSE acc[c]]

Shapes(n) == {s \in (1 .. n) \X (1 .. n) : s[1] * s[2] <= n}

FlowDirFields(r, k) ==
    {fd \in [Cells(r, k) -> Codes] :
        Cardinality({c \in Cells(r, k) : fd[c] # 0}) <= MaxSources}

----------------------------------------------------------------------------
(* Specification of calculate_flow_accumulation, one step per cell visit   *)

Init ==
    /\ \E s \in Shapes(MaxCells) : rows = s[1] /\ cols = s[2]
    /\ dem = <<>>
    /\ flow_dir \in FlowDirFields(rows, cols)
    /\ flow_acc = Ones(rows, cols)
    /\ processed = NoneProcessed(rows, cols)
    /\ iteration = 0
    /\ changed = FALSE
    /\ i = 0
    /\ j = 0
    /\ pc = "sweep"
    /\ out = <<>>
    /\ ret = <<>>
    /\ acc0 = Ones(rows, cols)
    /\ passes = <<>>
    /\ todo = {}
    /\ seq_acc = <<>>
    /\ proc0 = <<>>
    /\ XIdle

CellStep ==
    /\ pc = "sweep"
    /\ LET st == ProcessCell(flow_dir, rows, cols,
                     [flow_acc |-> flow_acc, processed |-> processed, changed |-> changed],
                     <<i, j>>)
       IN  /\ flow_acc' = st.flow_acc
           /\ processed' = st.processed
           /\ changed' = st.changed
    /\ IF j + 1 < cols
       THEN i' = i /\ j' = j + 1 /\ pc' = pc
       ELSE IF i + 1 < rows
            THEN i' = i + 1 /\ j' = 0 /\ pc' = pc
            ELSE i' = i /\ j' = j /\ pc' = "endpass"
    /\ UNCHANGED <<rows, cols, dem, flow_dir, iteration, out, ret, acc0, passes,
                   todo, seq_acc, proc0,
                   xvars>>

\* mutant of EndPass: an unchanged pass does not end the loop
EndPass_NoBreak ==
    /\ pc = "endpass"
    /\ passes' = Append(passes, changed)
    /\ IF iteration = max_iterations - 1
       THEN /\ out' = Append(out, IF changed THEN "warning" ELSE "converged")
            /\ pc' = "clip"
            /\ UNCHANGED <<iteration, changed, i, j, acc0>>
       ELSE /\ iteration' = iteration + 1
            /\ changed' = FALSE
            /\ i' = 0
            /\ j' = 0
            /\ acc0' = flow_acc
            /\ pc' = "sweep"
            /\ out' = out
    /\ UNCHANGED <<rows, cols, dem, flow_dir, flow_acc, processed, ret, todo, seq_acc, proc0,
                   xvars>>

\* mutant of EndPass: the warning is tested against max_iterations, which
\* the pass index never reaches
EndPass_NoWarning ==
    /\ pc = "endpass"
    /\ passes' = Append(passes, changed)
    /\ IF ~changed
       THEN /\ out' = Append(out, "converged")
            /\ pc' = "clip"
            /\ UNCHANGED <<iteration, changed, i, j, acc0>>
       ELSE IF iteration = max_iterations - 1
            THEN /\ out' = out
                 /\ pc' = "clip"
                 /\ UNCHANGED <<iteration, changed, i, j, acc0>>
            ELSE /\ iteration' = iteration + 1
                 /\ changed' = FALSE
                 /\ i' = 0
                 /\ j' = 0
                 /\ acc0' = flow_acc
                 /\ pc' = "sweep"
                 /\ out' = out
    /\ UNCHANGED <<rows, cols, dem, flow_dir, flow_acc, processed, ret, todo, seq_acc, proc0,
                   xvars>>

EndPass ==
    /\ pc = "endpass"
    /\ passes' = Append(passes, changed)
    /\ IF ~changed
       THEN /\ out' = Append(out, "converged")
            /\ pc' = "clip"
            /\ UNCHANGED <<iteration, changed, i, j, acc0>>
       ELSE IF iteration = max_iterations - 1
            THEN /\ out' = Append(out, "warning")
                 /\ pc' = "clip"
                 /\ UNCHANGED <<iteration, changed, i, j, acc0>>
            ELSE /\ iteration' = iteration + 1
                 /\ changed' = FALSE
                 /\ i' = 0
                 /\ j' = 0
                 /\ acc0' = flow_acc
                 /\ pc' = "sweep"
                 /\ out' = out
    /\ UNCHANGED <<rows, cols, dem, flow_dir, flow_acc, processed, ret, todo, seq_acc, proc0,
                   xvars>>

ClipAndReturn ==
    /\ pc = "clip"
    /\ flow_acc' = Clip(flow_acc)
    /\ ret' = Clip(flow_acc)
    /\ pc' = "done"
    /\ UNCHANGED <<rows, cols, dem, flow_dir, processed, iteration, changed, i, j,
                   out, acc0, passes, todo, seq_acc, proc0,
                   xvars>>

Next == CellStep \/ EndPass \/ ClipAndReturn

Spec == Init /\ [][Next]_vars

----------------------------------------------------------------------------
(* The routing graph of a direction field *)

RECURSIVE DrainsInto(_, _, _, _, _, _)
\* u reaches c by following one to n downstream links
DrainsInto(fd, r, k, u, c, n) ==
    /\ n > 0
    /\ LET d == Downstream(fd, r, k, u)
       IN  d # u /\ (d = c \/ DrainsInto(fd, r, k, d, c, n - 1))

Upstream(fd, r, k, c) == {u \in Cells(r, k) : DrainsInto(fd, r, k, u, c, r * k)}

Acyclic(fd, r, k) == \A c \in Cells(r, k) : ~DrainsInto(fd, r, k, c, c, r * k)

\* a and b drain into each other
Mutual(fd, r, k, a, b) ==
    a # b /\ Downstream(fd, r, k, a) = b /\ Downstream(fd, r, k, b) = a

\* the cell under the sweep is an unsettled source with a downstream cell
\* inside the grid
Pushing == pc = "sweep" /\ flow_dir[<<i, j>>] # 0 /\ ~processed[<<i, j>>]
           /\ Downstream(flow_dir, rows, cols, <<i, j>>) # <<i, j>>

Printed(m) == \E n \in 1 .. Len(out) : out[n] = m

AllChanged == \A n \in 1 .. Len(passes) : passes[n]

\* an upper bound of the steps the run can still take
StepsLeft ==
    CASE pc = "done"    -> 0
      [] pc = "clip"    -> 1
      [] pc = "endpass" -> (50 - iteration) * (rows * cols + 1) - rows * cols + 1
      [] OTHER          -> (50 - iteration) * (rows * cols + 1) - (i * cols + j) + 1

\* some cell's value moved by more than 0.1 since the current pass began
Moved == \E c \in Cells(rows, cols) : 10 * Abs(flow_acc[c] - acc0[c]) > 1

----------------------------------------------------------------------------
(* Claims about calculate_flow_accumulation *)

\* C1: for a direction field whose routing graph has no cycle, every cell of
\* the returned field is 1 plus the number of cells that transitively drain
\* into it.
C1_CountsUpstream ==
    (pc = "done" /\ Acyclic(flow_dir, rows, cols)) =>
        \A c \in Cells(rows, cols) :
            ret[c] = 1 + Cardinality(Upstream(flow_dir, rows, cols, c))

\* C2: every cell of the returned field is at least 1 and at most 1e6, for
\* every direction field, converged or not.
C2_Bounded ==
    pc = "done" =>
        /\ DOMAIN ret = Cells(rows, cols)
        /\ \A c \in Cells(rows, cols) : 1 <= ret[c] /\ ret[c] <= 1000000

\* C2 witness: a returned field in which a value above 1e6 was clamped.
C2_Witness ==
    pc = "done" /\ \E c \in Cells(rows, cols) : acc0[c] > 1000000 /\ ret[c] = 1000000

\* C3: the function runs at most 50 full-grid passes, stops at the first
\* pass in which no cell's value moved by more than 0.1 without running a
\* further pass, and always returns: it is never stuck before it has
\* returned, and every step lowers the bounded count of steps left.
C3_Terminates ==
    /\ [](Len(passes) <= 50 /\ iteration < 50)
    /\ [][(pc = "endpass" /\ ~Moved) => pc' = "clip"]_vars
    /\ [][(pc = "endpass" /\ pc' = "sweep") => (Moved /\ Len(passes') < 50)]_vars
    /\ [](StepsLeft >= 0 /\ (pc = "done" \/ ENABLED Next))
    /\ [][StepsLeft' < StepsLeft]_vars

\* C3 witness: the run has returned after stopping early on an unmoved pass.
C3_Witness ==
    pc = "done" /\ Len(passes) > 1 /\ Len(passes) < 50 /\ ~passes[Len(passes)]

\* C4: when all 50 passes are changed the function still returns the clamped
\* field and prints the non-convergence warning; the warning is printed
\* exactly when no pass was unchanged, and never together with the
\* converged report.
C4_Warning ==
    pc = "done" =>
        /\ Printed("warning") <=> AllChanged
        /\ ~(Printed("warning") /\ Printed("converged"))
        /\ (Len(passes) = 50 /\ AllChanged) =>
              /\ out = <<"warning">>
              /\ DOMAIN ret = Cells(rows, cols)
              /\ \A c \in Cells(rows, cols) : ret[c] <= 1000000

\* C4 witness: a run of 50 changed passes has returned with the warning.
C4_Witness ==
    pc = "done" /\ Len(passes) = 50 /\ AllChanged /\ Printed("warning")

\* C5: before the final clamp no cell's accumulation value ever decreases.
C5_Monotone ==
    [][pc # "clip" => \A c \in Cells(rows, cols) : flow_acc'[c] >= flow_acc[c]]_vars

\* C5 witness: a value has grown during propagation and the sweep goes on.
C5_Witness ==
    pc = "sweep" /\ iteration > 0 /\ \E c \in Cells(rows, cols) : flow_acc[c] > acc0[c]

\* C6: a source never adds into a downstream cell whose value already
\* exceeds 1e6; the source is marked settled instead, the field is left as
\* it is and the sweep goes on (no error).
C6_Guard ==
    [][(Pushing /\ flow_acc[Downstream(flow_dir, rows, cols, <<i, j>>)] > 1000000) =>
          /\ flow_acc' = flow_acc
          /\ processed' = [processed EXCEPT ![<<i, j>>] = TRUE]
          /\ pc' \in {"sweep", "endpass"}]_vars

\* C6 witness: the guard has settled a source whose downstream cell is
\* above 1e6.
C6_Witness ==
    \E c \in Cells(rows, cols) :
        /\ pc = "sweep"
        /\ processed[c]
        /\ flow_acc[Downstream(flow_dir, rows, cols, c)] > 1000000

\* C7: two cells draining into each other are both settled by the runaway
\* guard within the 50 passes and both are returned at most 1e6.
C7_MutualPair ==
    pc = "done" =>
        \A a, b \in Cells(rows, cols) :
            Mutual(flow_dir, rows, cols, a, b) =>
                /\ processed[a] /\ processed[b]
                /\ ret[a] <= 1000000 /\ ret[b] <= 1000000

\* C7 witness: a returned run on a field with a mutual-drainage pair.
C7_Witness ==
    pc = "done" /\ \E a, b \in Cells(rows, cols) :
        Mutual(flow_dir, rows, cols, a, b) /\ processed[a] /\ processed[b]


----------------------------------------------------------------------------
(* One propagation pass taken in an arbitrary order of the cells, each     *)
(* cell's read-test-add being one atomic step, after some row-major        *)
(* passes of the code.                                                     *)

RECURSIVE SweepFrom_Short(_, _, _, _, _)
\* mutant of SweepFrom: the sweep stops one cell short of the grid
SweepFrom_Short(fd, r, k, st, idx) ==
    IF idx >= r * k - 1 THEN st
    ELSE SweepFrom_Short(fd, r, k, ProcessCell(fd, r, k, st, <<idx \div k, idx % k>>), idx + 1)

RECURSIVE SweepFrom(_, _, _, _, _)
\* the two inner loops of calculate_flow_accumulation from the cell of
\* row-major index idx on
SweepFrom(fd, r, k, st, idx) ==
    IF idx >= r * k THEN st
    ELSE SweepFrom(fd, r, k, ProcessCell(fd, r, k, st, <<idx \div k, idx % k>>), idx + 1)

InitPar ==
    /\ \E s \in Shapes(MaxCells) : rows = s[1] /\ cols = s[2]
    /\ dem = <<>>
    /\ flow_dir \in FlowDirFields(rows, cols)
    /\ flow_acc = Ones(rows, cols)
    /\ processed = NoneProcessed(rows, cols)
    /\ iteration = 0
    /\ changed = FALSE
    /\ i = 0
    /\ j = 0
    /\ pc = "pass"
    /\ out = <<>>
    /\ ret = <<>>
    /\ acc0 = Ones(rows, cols)
    /\ passes = <<>>
    /\ todo = {}
    /\ seq_acc = <<>>
    /\ proc0 = NoneProcessed(rows, cols)
    /\ XIdle

\* one whole pass of the code: the row-major sweep and the test that ends it
SeqPass ==
    /\ pc = "pass"
    /\ iteration < MaxSeqPasses
    /\ LET st == SweepFrom(flow_dir, rows, cols,
                     [flow_acc |-> flow_acc, processed |-> processed, changed |-> FALSE], 0)
       IN  /\ flow_acc' = st.flow_acc
           /\ processed' = st.processed
           /\ changed' = st.changed
           /\ passes' = Append(passes, st.changed)
           /\ IF ~st.changed
              THEN /\ out' = Append(out, "converged")
                   /\ pc' = "clip"
                   /\ acc0' = flow_acc
                   /\ iteration' = iteration
              ELSE IF iteration = max_iterations - 1
                   THEN /\ out' = Append(out, "warning")
                        /\ pc' = "clip"
                        /\ acc0' = flow_acc
                        /\ iteration' = iteration
                   ELSE /\ out' = out
                        /\ pc' = "pass"
                        /\ acc0' = st.flow_acc
                        /\ iteration' = iteration + 1
    /\ UNCHANGED <<rows, cols, dem, flow_dir, i, j, ret, todo, seq_acc, proc0,
                   xvars>>

\* the next pass is taken unordered; seq_acc keeps what the code's sweep
\* makes of the same state
ParBegin ==
    /\ pc = "pass"
    /\ todo' = Cells(rows, cols)
    /\ seq_acc' = SweepFrom(flow_dir, rows, cols,
                      [flow_acc |-> flow_acc, processed |-> processed, changed |-> FALSE],
                      0).flow_acc
    /\ proc0' = processed
    /\ acc0' = flow_acc
    /\ changed' = FALSE
    /\ pc' = "par"
    /\ UNCHANGED <<rows, cols, dem, flow_dir, flow_acc, processed, iteration, i, j,
                   out, ret, passes,
                   xvars>>

\* some cell not yet visited in the pass is processed
ParStep ==
    /\ pc = "par"
    /\ \E c \in todo :
          LET st == ProcessCell(flow_dir, rows, cols,
                        [flow_acc |-> flow_acc, processed |-> processed,
                         changed |-> changed], c)
          IN  /\ flow_acc' = st.flow_acc
              /\ processed' = st.processed
              /\ changed' = st.changed
              /\ todo' = todo \ {c}
    /\ UNCHANGED <<rows, cols, dem, flow_dir, iteration, i, j, pc, out, ret, acc0,
                   passes, seq_acc, proc0,
                   xvars>>

NextPar == SeqPass \/ ParBegin \/ ParStep \/ ClipAndReturn

SpecPar == InitPar /\ [][NextPar]_vars

\* c was an unsettled source with a downstream cell in the grid when the
\* unordered pass began
ParActive(c) ==
    flow_dir[c] # 0 /\ ~proc0[c] /\ Downstream(flow_dir, rows, cols, c) # c

\* C8: with each increment atomic, the field after a pass is the same for
\* every order in which the source cells are processed, and equals the
\* result of the row-major sweep of the code.
C8_AnyOrder ==
    (pc = "par" /\ todo = {}) => flow_acc = seq_acc

\* C8 as amended: the same, for a pass in which no cell that receives an
\* increment is itself an unsettled source with a downstream cell, and no
\* receiving cell ends the pass above 1e6.
C8_AnyOrderIntoSinks ==
    (/\ pc = "par"
     /\ todo = {}
     /\ \A s \in Cells(rows, cols) :
           ParActive(s) =>
               /\ ~ParActive(Downstream(flow_dir, rows, cols, s))
               /\ flow_acc[Downstream(flow_dir, rows, cols, s)] <= 1000000)
    => flow_acc = seq_acc

\* C8 witness: an unordered pass has ended in which two sources pushed into
\* the same cell, which pushes nowhere, after a row-major pass of the code.
C8_Witness ==
    /\ pc = "par"
    /\ todo = {}
    /\ iteration > 0
    /\ \A s \in Cells(rows, cols) :
           ParActive(s) =>
               /\ ~ParActive(Downstream(flow_dir, rows, cols, s))
               /\ flow_acc[Downstream(flow_dir, rows, cols, s)] <= 1000000
    /\ \E s, t \in Cells(rows, cols) :
           /\ s # t /\ ParActive(s) /\ ParActive(t)
           /\ Downstream(flow_dir, rows, cols, s) = Downstream(flow_dir, rows, cols, t)


----------------------------------------------------------------------------
(* calculate_flow_direction_d8 *)

\* D8 neighbor offsets (row, col) and their direction codes, in scan order
neighbors ==
    << <<-1, 1, 128>>, <<0, 1, 1>>, <<1, 1, 2>>, <<1, 0, 4>>,
       <<1, -1, 8>>, <<0, -1, 16>>, <<-1, -1, 32>>, <<-1, 0, 64>> >>

NaN == <<>>

IsNaN(x) == x = NaN

\* mutant of Slope: the distance is dr^2 + dc^2, its square root not taken
Slope_SquaredDistance(center_elev, neighbor_elev, dr, dc) ==
    LET d == center_elev[1] - neighbor_elev[1]
        q == dr * dr + dc * dc
    IN  <<IF d < 0 THEN -(d * d) ELSE d * d, q * q>>

\* (center_elev - neighbor_elev) / sqrt(dr^2 + dc^2) as <<sgn(d) * d^2, dr^2 + dc^2>>
Slope(center_elev, neighbor_elev, dr, dc) ==
    LET d == center_elev[1] - neighbor_elev[1]
    IN  <<IF d < 0 THEN -(d * d) ELSE d * d, dr * dr + dc * dc>>

\* -np.inf: below every slope under SlopeGT
NegInf == <<-1, 0>>

\* slope > max_slope
SlopeGT(a, b) == a[1] * b[2] > b[1] * a[2]

RECURSIVE D8Scan_LastTie(_, _, _, _, _, _, _)
\* mutant of D8Scan: slope >= max_slope, so the last of tied neighbors wins
D8Scan_LastTie(d, r, k, c, n, max_slope, flow_direction) ==
    IF n > Len(neighbors) THEN flow_direction
    ELSE LET dr == neighbors[n][1]
             dc == neighbors[n][2]
             nb == <<c[1] + dr, c[2] + dc>>
             slope == Slope(d[c], d[nb], dr, dc)
         IN  IF InBounds(r, k, nb) /\ ~IsNaN(d[nb]) /\ ~SlopeGT(max_slope, slope)
             THEN D8Scan_LastTie(d, r, k, c, n + 1, slope, neighbors[n][3])
             ELSE D8Scan_LastTie(d, r, k, c, n + 1, max_slope, flow_direction)

RECURSIVE D8Scan_NoDataAsZero(_, _, _, _, _, _, _)
\* mutant of D8Scan: a no-data neighbor is not skipped but read as elevation 0
D8Scan_NoDataAsZero(d, r, k, c, n, max_slope, flow_direction) ==
    IF n > Len(neighbors) THEN flow_direction
    ELSE LET dr == neighbors[n][1]
             dc == neighbors[n][2]
             nb == <<c[1] + dr, c[2] + dc>>
             slope == Slope(d[c], IF IsNaN(d[nb]) THEN <<0>> ELSE d[nb], dr, dc)
         IN  IF InBounds(r, k, nb) /\ SlopeGT(slope, max_slope)
             THEN D8Scan_NoDataAsZero(d, r, k, c, n + 1, slope, neighbors[n][3])
             ELSE D8Scan_NoDataAsZero(d, r, k, c, n + 1, max_slope, flow_direction)

RECURSIVE D8Scan(_, _, _, _, _, _, _)
\* the loop over neighbors for the cell c, from neighbor n on, with the
\* running max_slope and flow_direction
D8Scan(d, r, k, c, n, max_slope, flow_direction) ==
    IF n > Len(neighbors) THEN flow_direction
    ELSE LET dr == neighbors[n][1]
             dc == neighbors[n][2]
             nb == <<c[1] + dr, c[2] + dc>>
             slope == Slope(d[c], d[nb], dr, dc)
         IN  IF InBounds(r, k, nb) /\ ~IsNaN(d[nb]) /\ SlopeGT(slope, max_slope)
             THEN D8Scan(d, r, k, c, n + 1, slope, neighbors[n][3])
             ELSE D8Scan(d, r, k, c, n + 1, max_slope, flow_direction)

ElevValues == {NaN} \cup {<<e>> : e \in 0 .. MaxElev}

Min(a, b) == IF a < b THEN a ELSE b

\* the elevation field of shape r x k that repeats the window w, a field of
\* at most 3 x 3 cells, with period 3
Tiled(w, r, k) == [c \in Cells(r, k) |-> w[<<c[1] % 3, c[2] % 3>>]]

InitD8 ==
    /\ rows \in 1 .. MaxDemSide
    /\ cols = rows
    /\ \E w \in [Cells(Min(rows, 3), Min(cols, 3)) -> ElevValues] :
          dem = Tiled(w, rows, cols)
    /\ flow_dir = <<>>
    /\ flow_acc = <<>>
    /\ processed = <<>>
    /\ iteration = 0
    /\ changed = FALSE
    /\ i = 0
    /\ j = 0
    /\ pc = "d8begin"
    /\ out = <<>>
    /\ ret = <<>>
    /\ acc0 = <<>>
    /\ passes = <<>>
    /\ todo = {}
    /\ seq_acc = <<>>
    /\ proc0 = <<>>
    /\ XIdle

\* mutant of Interior: the two loops start at index 0
Interior_FromZero(r, k) == {c \in Cells(r, k) : c[1] < r - 1 /\ c[2] < k - 1}

\* mutant of Interior: the loop over the rows runs to the last row
Interior_ToLastRow(r, k) == {c \in Cells(r, k) : 1 <= c[1] /\ 1 <= c[2] /\ c[2] < k - 1}

\* the cells the two loops visit: range(1, rows - 1) x range(1, cols - 1)
Interior(r, k) == {c \in Cells(r, k) : 1 <= c[1] /\ c[1] < r - 1 /\ 1 <= c[2] /\ c[2] < k - 1}

\* mutant of D8Field: the running maximum slope starts at 0
D8Field_FromZeroSlope(d, r, k) ==
    [c \in Cells(r, k) |->
        IF c \in Interior(r, k) /\ ~IsNaN(d[c])
        THEN D8Scan(d, r, k, c, 1, <<0, 1>>, 0)
        ELSE 0]

\* the field the function returns: zeros, with the scan's result written in
\* every interior cell that has data (a cell's result reads dem alone)
D8Field(d, r, k) ==
    [c \in Cells(r, k) |->
        IF c \in Interior(r, k) /\ ~IsNaN(d[c])
        THEN D8Scan(d, r, k, c, 1, NegInf, 0)
        ELSE 0]

\* flow_dir = calculate_flow_direction_d8(dem)
D8Run ==
    /\ pc = "d8begin"
    /\ flow_dir' = D8Field(dem, rows, cols)
    /\ pc' = "d8done"
    /\ UNCHANGED <<rows, cols, dem, flow_acc, processed, iteration, changed, i, j, out,
                   ret, acc0, passes, todo, seq_acc, proc0,
                   xvars>>

NextD8 == D8Run

SpecD8 == InitD8 /\ [][NextD8]_vars

----------------------------------------------------------------------------
(* Claims about calculate_flow_direction_d8 *)

NeighborCell(c, n) == <<c[1] + neighbors[n][1], c[2] + neighbors[n][2]>>

\* the n-th neighbor of c is inside the grid and has data
ValidNeighbor(c, n) ==
    InBounds(rows, cols, NeighborCell(c, n)) /\ ~IsNaN(dem[NeighborCell(c, n)])

SlopeTo(c, n) == Slope(dem[c], dem[NeighborCell(c, n)], neighbors[n][1], neighbors[n][2])

\* C9: the neighbour coded for an interior cell has the greatest slope among
\* the valid neighbours and is the first, in the order NE, E, SE, S, SW, W,
\* NW, N, of those tied at that maximum.
C9_SteepestFirst ==
    pc = "d8done" =>
        \A c \in Interior(rows, cols) :
            flow_dir[c] # 0 =>
                \E n \in 1 .. 8 :
                    /\ neighbors[n][3] = flow_dir[c]
                    /\ ValidNeighbor(c, n)
                    /\ \A m \in 1 .. 8 :
                          ValidNeighbor(c, m) =>
                              /\ ~SlopeGT(SlopeTo(c, m), SlopeTo(c, n))
                              /\ m < n => SlopeGT(SlopeTo(c, n), SlopeTo(c, m))

\* C9 witness: a coded cell with a later neighbour tied at the greatest
\* slope, and a diagonal neighbour that drops as far but is less steep.
C9_Witness ==
    /\ pc = "d8done"
    /\ \E c \in Interior(rows, cols) : \E n, m, q \in 1 .. 8 :
          /\ neighbors[n][3] = flow_dir[c]
          /\ n < m /\ ValidNeighbor(c, m) /\ ValidNeighbor(c, q)
          /\ ~SlopeGT(SlopeTo(c, n), SlopeTo(c, m))
          /\ q < n /\ dem[NeighborCell(c, q)] = dem[NeighborCell(c, n)]
          /\ SlopeGT(SlopeTo(c, n), SlopeTo(c, q))

\* C10: an interior cell with no valid neighbour lower than itself (a pit or
\* a flat cell) gets direction code 0.
C10_PitIsZero ==
    pc = "d8done" =>
        \A c \in Interior(rows, cols) :
            (\A n \in 1 .. 8 :
                (ValidNeighbor(c, n) /\ ~IsNaN(dem[c])) =>
                    dem[NeighborCell(c, n)][1] >= dem[c][1])
            => flow_dir[c] = 0


----------------------------------------------------------------------------
(* extract_flow_vectors and create_flow_start_points.                      *)
(* An accumulation value handed to them is a float: NaN, or <<v>> for the  *)
(* number v.  A threshold t is the pair <<n, d>> of the number n / d       *)
(* (the pipeline uses 1 and 0.5).  A coordinate is kept in half units, so  *)
(* that the centre of a pixel is a whole number.                           *)

\* the second copy of the table, local to extract_flow_vectors
extract_dir_to_offset ==
    (128 :> <<-1, 1>>) @@ (1 :> <<0, 1>>) @@ (2 :> <<1, 1>>) @@ (4 :> <<1, 0>>) @@
    (8 :> <<1, -1>>) @@ (16 :> <<0, -1>>) @@ (32 :> <<-1, -1>>) @@ (64 :> <<-1, 0>>)

\* mutant of FloatLT: x <= t
FloatLT_OrEqual(x, t) == ~IsNaN(x) /\ x[1] * t[2] <= t[1]

\* x < t for a float x and a threshold t; false when x is NaN
FloatLT(x, t) == ~IsNaN(x) /\ x[1] * t[2] < t[1]

\* x >= t for a float x and a threshold t; false when x is NaN
FloatGE(x, t) == ~IsNaN(x) /\ x[1] * t[2] >= t[1]

\* rio_xy(transform, row, col): the centre of the pixel, twice its coordinates
rio_xy(T, row, col) ==
    <<2 * T.c + T.a * (2 * col + 1) + T.b * (2 * row + 1),
      2 * T.f + T.d * (2 * col + 1) + T.e * (2 * row + 1)>>

RECURSIVE FlowLinesFrom(_, _, _, _, _, _, _)
\* the two loops of extract_flow_vectors from the cell of row-major index
\* idx on: the flow lines appended from there
FlowLinesFrom(fd, acc, T, r, k, th, idx) ==
    IF idx >= r * k THEN <<>>
    ELSE LET c == <<idx \div k, idx % k>>
             rest == FlowLinesFrom(fd, acc, T, r, k, th, idx + 1)
         IN  IF fd[c] = 0 \/ FloatLT(acc[c], th) THEN rest
             ELSE IF fd[c] \notin DOMAIN extract_dir_to_offset THEN rest
             ELSE LET n == <<c[1] + extract_dir_to_offset[fd[c]][1],
                             c[2] + extract_dir_to_offset[fd[c]][2]>>
                  IN  IF ~InBounds(r, k, n) THEN rest
                      ELSE <<[from         |-> rio_xy(T, c[1], c[2]),
                              to           |-> rio_xy(T, n[1], n[2]),
                              accumulation |-> acc[c],
                              direction    |-> fd[c]]>> \o rest

extract_flow_vectors(fd, acc, T, r, k, th) == FlowLinesFrom(fd, acc, T, r, k, th, 0)

RECURSIVE StartPointsFrom_EveryColumn(_, _, _, _, _, _, _, _)
\* mutant of StartPointsFrom: the inner loop steps by 1
StartPointsFrom_EveryColumn(acc, T, r, k, sp, ma, ii, jj) ==
    IF ii >= r THEN <<>>
    ELSE IF jj >= k THEN StartPointsFrom_EveryColumn(acc, T, r, k, sp, ma, ii + sp, 0)
    ELSE LET rest == StartPointsFrom_EveryColumn(acc, T, r, k, sp, ma, ii, jj + 1)
         IN  IF FloatGE(acc[<<ii, jj>>], ma) /\ ~IsNaN(acc[<<ii, jj>>])
             THEN <<[position |-> rio_xy(T, ii, jj),
                     weight   |-> acc[<<ii, jj>>]]>> \o rest
             ELSE rest

RECURSIVE StartPointsFrom(_, _, _, _, _, _, _, _)
\* the two loops of create_flow_start_points from row ii, column jj on
StartPointsFrom(acc, T, r, k, sp, ma, ii, jj) ==
    IF ii >= r THEN <<>>
    ELSE IF jj >= k THEN StartPointsFrom(acc, T, r, k, sp, ma, ii + sp, 0)
    ELSE LET rest == StartPointsFrom(acc, T, r, k, sp, ma, ii, jj + sp)
         IN  IF FloatGE(acc[<<ii, jj>>], ma) /\ ~IsNaN(acc[<<ii, jj>>])
             THEN <<[position |-> rio_xy(T, ii, jj),
                     weight   |-> acc[<<ii, jj>>]]>> \o rest
             ELSE rest

create_flow_start_points(acc, T, r, k, sp, ma) ==
    StartPointsFrom(acc, T, r, k, sp, ma, 0, 0)

\* bounds = src.bounds, in half units like the points of rio_xy: the box of a raster of r rows and k columns whose
\* transform T has no rotation
dataset_bounds(T, r, k) ==
    [left   |-> 2 * T.c,
     bottom |-> 2 * (T.f + T.e * r),
     right  |-> 2 * (T.c + T.a * k),
     top    |-> 2 * T.f]

\* a north-up transform: pixels of size px, the grid's corner at (c, f)
NorthUp(px, c, f) == [a |-> px, b |-> 0, c |-> c, d |-> 0, e |-> -px, f |-> f]


----------------------------------------------------------------------------
(* main: the fill of no-data cells, the direction field, the accumulation  *)
(* field, the flow lines and the start points.  An elevation of the        *)
(* pipeline is a whole count of 1/840 m: the mean of up to eight raw       *)
(* elevations, which are whole metres, is then a whole number too.         *)

\* lcm(1 .. 8): the sizes the set of valid values of a 3 x 3 window can have
ElevUnit == 840

\* the valid cells of the 3 x 3 window around c; generic_filter pads the grid
\* with NaN (mode='constant', cval=np.nan)
ValidInWindow(d, r, k, c) ==
    {n \in Cells(r, k) : Abs(n[1] - c[1]) <= 1 /\ Abs(n[2] - c[2]) <= 1 /\ ~IsNaN(d[n])}

RECURSIVE SumOver(_, _)
SumOver(d, S) ==
    IF S = {} THEN 0
    ELSE LET n == CHOOSE n \in S : TRUE
         IN  d[n][1] + SumOver(d, S \ {n})

\* fill_func on the window around c: the mean of the valid values, else NaN
fill_func(d, r, k, c) ==
    LET valid == ValidInWindow(d, r, k, c)
    IN  IF Cardinality(valid) > 0
        THEN <<SumOver(d, valid) \div Cardinality(valid)>>
        ELSE NaN

\* dem = np.where(mask, dem_filled, dem), when the mask has a cell
Filled(d, r, k) ==
    IF \E c \in Cells(r, k) : IsNaN(d[c])
    THEN [c \in Cells(r, k) |-> IF IsNaN(d[c]) THEN fill_func(d, r, k, c) ELSE d[c]]
    ELSE d

\* the raw elevation grids of shape r x k: whole metres 0 .. MaxElev that
\* repeat a 2 x 2 window, with a no-data block of nr x nc cells at the
\* north-west corner
RawDems(r, k) ==
    {[c \in Cells(r, k) |->
         IF c[1] < nr /\ c[2] < nc THEN NaN
         ELSE <<ElevUnit * w[<<c[1] % 2, c[2] % 2>>]>>] :
     nr \in 0 .. r, nc \in 0 .. k, w \in [Cells(2, 2) -> 0 .. MaxElev]}

\* the 5 x 5 grid that falls evenly from 100 m at the north-west corner to
\* 0 m at the south-east corner, 12.5 m a step
SlopingDem == [c \in Cells(5, 5) |-> <<ElevUnit * 100 - (ElevUnit * 25 * (c[1] + c[2])) \div 2>>]

\* float(flow_acc[i, j]) of the float32 field the propagator returns
AsFloat(acc) == [c \in DOMAIN acc |-> <<acc[c]>>]

InitMain ==
    /\ \/ \E s \in Shapes(MaxMainCells) :
              rows = s[1] /\ cols = s[2] /\ dem \in RawDems(rows, cols)
       \/ rows = 5 /\ cols = 5 /\ dem = SlopingDem
    /\ flow_dir = <<>>
    /\ flow_acc = <<>>
    /\ processed = <<>>
    /\ iteration = 0
    /\ changed = FALSE
    /\ i = 0
    /\ j = 0
    /\ pc = "fill"
    /\ out = <<>>
    /\ ret = <<>>
    /\ acc0 = <<>>
    /\ passes = <<>>
    /\ todo = {}
    /\ seq_acc = <<>>
    /\ proc0 = <<>>
    /\ transform = NorthUp(2, 10, 20)
    /\ bounds = dataset_bounds(transform, rows, cols)
    /\ threshold = <<1, 1>>
    /\ spacing = 2
    /\ min_accumulation = <<1, 2>>
    /\ flow_lines = <<>>
    /\ start_points = <<>>
    /\ items = <<>>
    /\ max_count = 0
    /\ indices = <<>>
    /\ sampled = <<>>

\* the preprocessing of the DEM
Fill ==
    /\ pc = "fill"
    /\ dem' = Filled(dem, rows, cols)
    /\ pc' = "d8begin"
    /\ UNCHANGED <<rows, cols, flow_dir, flow_acc, processed, iteration, changed, i, j,
                   out, ret, acc0, passes, todo, seq_acc, proc0, xvars>>

\* the call of calculate_flow_accumulation up to its first pass
AccBegin ==
    /\ pc = "d8done"
    /\ flow_acc' = Ones(rows, cols)
    /\ processed' = NoneProcessed(rows, cols)
    /\ acc0' = Ones(rows, cols)
    /\ iteration' = 0
    /\ changed' = FALSE
    /\ i' = 0
    /\ j' = 0
    /\ passes' = <<>>
    /\ pc' = "sweep"
    /\ UNCHANGED <<rows, cols, dem, flow_dir, out, ret, todo, seq_acc, proc0, xvars>>

\* mutant of ExtractVectors: the direction field is cleared while it is read
ExtractVectors_ClearsDirection ==
    /\ pc = "done"
    /\ flow_lines' = extract_flow_vectors(flow_dir, AsFloat(ret), transform, rows, cols, threshold)
    /\ flow_dir' = [c \in DOMAIN flow_dir |-> 0]
    /\ pc' = "extracted"
    /\ UNCHANGED <<rows, cols, dem, flow_acc, processed, iteration, changed,
                   i, j, out, ret, acc0, passes, todo, seq_acc, proc0,
                   transform, bounds, threshold, spacing, min_accumulation, start_points,
                   items, max_count, indices, sampled>>

\* flow_lines = extract_flow_vectors(flow_dir, flow_acc, transform, dem.shape, threshold=1)
ExtractVectors ==
    /\ pc = "done"
    /\ flow_lines' = extract_flow_vectors(flow_dir, AsFloat(ret), transform, rows, cols, threshold)
    /\ pc' = "extracted"
    /\ UNCHANGED <<rows, cols, dem, flow_dir, flow_acc, processed, iteration, changed,
                   i, j, out, ret, acc0, passes, todo, seq_acc, proc0,
                   transform, bounds, threshold, spacing, min_accumulation, start_points,
                   items, max_count, indices, sampled>>

\* start_points = create_flow_start_points(flow_acc, transform, spacing=2, min_accumulation=0.5)
CreateStartPoints ==
    /\ pc = "extracted"
    /\ start_points' = create_flow_start_points(AsFloat(ret), transform, rows, cols,
                                                spacing, min_accumulation)
    /\ pc' = "seeded"
    /\ UNCHANGED <<rows, cols, dem, flow_dir, flow_acc, processed, iteration, changed,
                   i, j, out, ret, acc0, passes, todo, seq_acc, proc0,
                   transform, bounds, threshold, spacing, min_accumulation, flow_lines,
                   items, max_count, indices, sampled>>

NextMain ==
    Fill \/ D8Run \/ AccBegin \/ CellStep \/ EndPass \/ ClipAndReturn
         \/ ExtractVectors \/ CreateStartPoints

SpecMain == InitMain /\ [][NextMain]_vars


----------------------------------------------------------------------------
(* Claims about the pipeline *)

\* the direction field has been computed
HasFlowDir == pc \notin {"fill", "d8begin"}

\* the propagator has returned
HasFlowAcc == pc \in {"done", "extracted", "seeded"}

\* the cell the code of u names, inside the grid or not
CodeTarget(u) ==
    LET n == CHOOSE n \in 1 .. 8 : neighbors[n][3] = flow_dir[u]
    IN  NeighborCell(u, n)

\* C11: whatever the shape of the grid, the direction field has code 0 in
\* every cell of the first and last row and of the first and last column.
C11_BorderZero ==
    HasFlowDir =>
        /\ DOMAIN flow_dir = Cells(rows, cols)
        /\ \A c \in Cells(rows, cols) :
              (c[1] = 0 \/ c[1] = rows - 1 \/ c[2] = 0 \/ c[2] = cols - 1) => flow_dir[c] = 0

\* C11 witness: a direction field of a grid that is not square, with a coded
\* cell, and a border cell that has data and a lower neighbour with data.
C11_Witness ==
    /\ pc = "d8done"
    /\ rows # cols
    /\ \E u \in Cells(rows, cols) : flow_dir[u] # 0
    /\ \E c \in Cells(rows, cols) : \E n \in 1 .. 8 :
          /\ c[1] = 0 \/ c[1] = rows - 1 \/ c[2] = 0 \/ c[2] = cols - 1
          /\ ~IsNaN(dem[c])
          /\ ValidNeighbor(c, n)
          /\ dem[NeighborCell(c, n)][1] < dem[c][1]

\* C12: a no-data cell has direction code 0, is not the cell named by the
\* code of any cell, and a visit of it during accumulation leaves the
\* accumulation field as it is.
C12_NoDataInert ==
    /\ [](HasFlowDir =>
            \A c \in Cells(rows, cols) :
                IsNaN(dem[c]) =>
                    /\ flow_dir[c] = 0
                    /\ \A u \in Cells(rows, cols) : flow_dir[u] # 0 => CodeTarget(u) # c)
    /\ [][(pc = "sweep" /\ IsNaN(dem[<<i, j>>])) => flow_acc' = flow_acc]_vars

\* C12 witness: in a pass after the first, the sweep is at an interior
\* no-data cell that is a neighbour of a coded cell.
C12_Witness ==
    /\ pc = "sweep"
    /\ iteration > 0
    /\ <<i, j>> \in Interior(rows, cols)
    /\ IsNaN(dem[<<i, j>>])
    /\ \E u \in Cells(rows, cols) : \E n \in 1 .. 8 :
          flow_dir[u] # 0 /\ NeighborCell(u, n) = <<i, j>>

\* the grid is 3 x 3 and its nine elevations are one number
Flat3x3 ==
    /\ rows = 3
    /\ cols = 3
    /\ \A c \in Cells(3, 3) : ~IsNaN(dem[c]) /\ dem[c] = dem[<<0, 0>>]

\* C13: on a 3 x 3 grid of nine equal elevations the interior cell gets
\* direction code 0 and the propagator returns 1 in every cell.
C13_Flat3x3 ==
    (HasFlowAcc /\ Flat3x3) =>
        /\ flow_dir[<<1, 1>>] = 0
        /\ \A c \in Cells(3, 3) : ret[c] = 1

\* the run is on the 5 x 5 grid falling from 100 at the north-west corner to
\* 0 at the south-east corner, and the propagator has returned
Sloped5x5 ==
    /\ HasFlowAcc
    /\ rows = 5
    /\ cols = 5
    /\ \A c \in Cells(5, 5) : 2 * dem[c][1] = ElevUnit * (200 - 25 * (c[1] + c[2]))

\* C14: on the 5 x 5 slope every interior cell gets code 2 (SE), the returned
\* accumulation is strictly increasing along the diagonal from the NW corner
\* to the SE corner, and the maximum of the grid is at the SE corner or at
\* its interior neighbour.
C14_Slope5x5 ==
    Sloped5x5 =>
        /\ \A c \in (1 .. 3) \X (1 .. 3) : flow_dir[c] = 2
        /\ \A n \in 0 .. 3 : ret[<<n, n>>] < ret[<<n + 1, n + 1>>]
        /\ \E m \in {<<4, 4>>, <<3, 3>>} : \A c \in Cells(5, 5) : ret[c] <= ret[m]

\* C14 as amended: the same, the accumulation being equal at the NW corner
\* and its interior neighbour and strictly increasing from there on.
C14_Slope5x5FromInterior ==
    Sloped5x5 =>
        /\ \A c \in (1 .. 3) \X (1 .. 3) : flow_dir[c] = 2
        /\ ret[<<0, 0>>] = ret[<<1, 1>>]
        /\ \A n \in 1 .. 3 : ret[<<n, n>>] < ret[<<n + 1, n + 1>>]
        /\ \E m \in {<<4, 4>>, <<3, 3>>} : \A c \in Cells(5, 5) : ret[c] <= ret[m]

\* C14 witness: the run on the 5 x 5 slope has returned a field whose
\* south-east corner has received flow.
C14_Witness ==
    Sloped5x5 /\ pc = "done" /\ ret[<<4, 4>>] > 1 /\ Len(passes) = 50


----------------------------------------------------------------------------
(* extract_flow_vectors on any direction field and any accumulation field. *)
(* Here flow_acc is the float field handed to the function.                *)

\* the float fields of shape r x k in which the cell of row-major index n
\* holds the number n, but for at most one cell, which holds NaN
RampFields(r, k) ==
    {[c \in Cells(r, k) |-> IF c = x THEN NaN ELSE <<c[1] * k + c[2]>>] :
     x \in Cells(r, k) \cup {<<-1, -1>>}}

InitVec ==
    /\ \E s \in Shapes(MaxCells) : rows = s[1] /\ cols = s[2]
    /\ dem = <<>>
    /\ flow_dir \in FlowDirFields(rows, cols)
    /\ flow_acc \in RampFields(rows, cols)
    /\ processed = <<>>
    /\ iteration = 0
    /\ changed = FALSE
    /\ i = 0
    /\ j = 0
    /\ pc = "vectors"
    /\ out = <<>>
    /\ ret = <<>>
    /\ acc0 = <<>>
    /\ passes = <<>>
    /\ todo = {}
    /\ seq_acc = <<>>
    /\ proc0 = <<>>
    /\ transform = NorthUp(2, 10, 20)
    /\ bounds = <<>>
    /\ threshold \in {<<t, 1>> : t \in 0 .. rows * cols}
    /\ spacing = 0
    /\ min_accumulation = <<>>
    /\ flow_lines = <<>>
    /\ start_points = <<>>
    /\ items = <<>>
    /\ max_count = 0
    /\ indices = <<>>
    /\ sampled = <<>>

\* flow_lines = extract_flow_vectors(flow_dir, flow_acc, transform, shape, threshold)
ExtractCall ==
    /\ pc = "vectors"
    /\ flow_lines' = extract_flow_vectors(flow_dir, flow_acc, transform, rows, cols, threshold)
    /\ pc' = "vectorsdone"
    /\ UNCHANGED <<rows, cols, dem, flow_dir, flow_acc, processed, iteration, changed,
                   i, j, out, ret, acc0, passes, todo, seq_acc, proc0,
                   transform, bounds, threshold, spacing, min_accumulation, start_points,
                   items, max_count, indices, sampled>>

NextVec == ExtractCall

SpecVec == InitVec /\ [][NextVec]_vars

\* the places in flow_lines of the flow lines that start at the centre of c
LinesFrom(c) ==
    {n \in 1 .. Len(flow_lines) : flow_lines[n].from = rio_xy(transform, c[1], c[2])}

\* the one flow line of c is there: it ends at the centre of the cell the
\* code of c names and carries the accumulation and the code of c
OneLineOf(c) ==
    \E n \in 1 .. Len(flow_lines) :
        /\ LinesFrom(c) = {n}
        /\ flow_lines[n].to = rio_xy(transform, CodeTarget(c)[1], CodeTarget(c)[2])
        /\ flow_lines[n].accumulation = flow_acc[c]
        /\ flow_lines[n].direction = flow_dir[c]

\* C15: the list has exactly one flow line for each cell whose code is not 0
\* and whose accumulation is at least the threshold, and none for any other
\* cell; the line joins the cell to the neighbour its code names and carries
\* the cell's accumulation and code.
C15_OnePerCell ==
    pc = "vectorsdone" =>
        \A c \in Cells(rows, cols) :
            IF /\ flow_dir[c] # 0
               /\ ~IsNaN(flow_acc[c])
               /\ flow_acc[c][1] * threshold[2] >= threshold[1]
            THEN OneLineOf(c)
            ELSE LinesFrom(c) = {}

\* C15 as amended: the same, for each cell whose code is not 0, whose
\* accumulation is not below the threshold (at least the threshold, or NaN)
\* and whose named neighbour lies inside the grid.
C15_OnePerCellInGrid ==
    pc = "vectorsdone" =>
        \A c \in Cells(rows, cols) :
            IF /\ flow_dir[c] # 0
               /\ IsNaN(flow_acc[c]) \/ flow_acc[c][1] * threshold[2] >= threshold[1]
               /\ InBounds(rows, cols, CodeTarget(c))
            THEN OneLineOf(c)
            ELSE LinesFrom(c) = {}

\* C15 witness: the list has the flow line of a cell whose accumulation is
\* NaN, and none for a cell that meets the threshold but whose code names a
\* cell off the grid.
C15_Witness ==
    /\ pc = "vectorsdone"
    /\ \E c \in Cells(rows, cols) : IsNaN(flow_acc[c]) /\ LinesFrom(c) # {}
    /\ \E c \in Cells(rows, cols) :
          /\ flow_dir[c] # 0
          /\ ~IsNaN(flow_acc[c])
          /\ flow_acc[c][1] * threshold[2] >= threshold[1]
          /\ ~InBounds(rows, cols, CodeTarget(c))
          /\ LinesFrom(c) = {}


----------------------------------------------------------------------------
(* create_flow_start_points on any accumulation field.  Here flow_acc is   *)
(* the float field handed to the function.                                 *)

InitSeed ==
    /\ rows \in 1 .. MaxSeedSide
    /\ cols \in 1 .. MaxSeedSide
    /\ dem = <<>>
    /\ flow_dir = <<>>
    /\ flow_acc \in RampFields(rows, cols)
    /\ processed = <<>>
    /\ iteration = 0
    /\ changed = FALSE
    /\ i = 0
    /\ j = 0
    /\ pc = "seeds"
    /\ out = <<>>
    /\ ret = <<>>
    /\ acc0 = <<>>
    /\ passes = <<>>
    /\ todo = {}
    /\ seq_acc = <<>>
    /\ proc0 = <<>>
    /\ transform = NorthUp(2, 10, 20)
    /\ bounds = <<>>
    /\ threshold = <<>>
    /\ spacing \in 1 .. MaxSpacing
    /\ min_accumulation \in {<<t, 2>> : t \in 0 .. 2 * rows * cols}
    /\ flow_lines = <<>>
    /\ start_points = <<>>
    /\ items = <<>>
    /\ max_count = 0
    /\ indices = <<>>
    /\ sampled = <<>>

\* start_points = create_flow_start_points(flow_acc, transform, spacing, min_accumulation)
SeedCall ==
    /\ pc = "seeds"
    /\ start_points' = create_flow_start_points(flow_acc, transform, rows, cols,
                                                spacing, min_accumulation)
    /\ pc' = "seedsdone"
    /\ UNCHANGED <<rows, cols, dem, flow_dir, flow_acc, processed, iteration, changed,
                   i, j, out, ret, acc0, passes, todo, seq_acc, proc0,
                   transform, bounds, threshold, spacing, min_accumulation, flow_lines,
                   items, max_count, indices, sampled>>

NextSeed == SeedCall

SpecSeed == InitSeed /\ [][NextSeed]_vars

\* C16: the list has one point for exactly the cells (i, j) with i and j
\* multiples of spacing whose accumulation is at least min_accumulation, in
\* row-major order of the cells, and the weight of a point is the
\* accumulation of its cell.
C16_SeedGrid ==
    pc = "seedsdone" =>
        LET Sel == {c \in Cells(rows, cols) :
                       /\ c[1] % spacing = 0
                       /\ c[2] % spacing = 0
                       /\ ~IsNaN(flow_acc[c])
                       /\ flow_acc[c][1] * min_accumulation[2] >= min_accumulation[1]}
            Before(c) == {b \in Sel : b[1] < c[1] \/ (b[1] = c[1] /\ b[2] < c[2])}
        IN  /\ Len(start_points) = Cardinality(Sel)
            /\ \A c \in Sel :
                  /\ start_points[Cardinality(Before(c)) + 1].position
                        = rio_xy(transform, c[1], c[2])
                  /\ start_points[Cardinality(Before(c)) + 1].weight = flow_acc[c]

\* C16 witness: with spacing 2 the list has points of two rows of the grid,
\* a cell on the sub-grid is left out for its accumulation, and a cell off
\* the sub-grid meets min_accumulation.
C16_Witness ==
    /\ pc = "seedsdone"
    /\ spacing = 2
    /\ \E n, m \in 1 .. Len(start_points) :
          start_points[n].position[2] # start_points[m].position[2]
    /\ \E c \in Cells(rows, cols) :
          /\ c[1] % 2 = 0 /\ c[2] % 2 = 0
          /\ ~IsNaN(flow_acc[c])
          /\ flow_acc[c][1] * min_accumulation[2] < min_accumulation[1]
    /\ \E c \in Cells(rows, cols) :
          /\ c[2] % 2 = 1
          /\ ~IsNaN(flow_acc[c])
          /\ flow_acc[c][1] * min_accumulation[2] >= min_accumulation[1]


----------------------------------------------------------------------------
(* Claims about what the pipeline extracts *)

\* C17: a cell whose elevation is no-data after the fill is in no extracted
\* primitive: no flow line starts at it and no start point is at it.
C17_NoDataExcluded ==
    pc = "seeded" =>
        \A c \in Cells(rows, cols) :
            IsNaN(dem[c]) =>
                /\ LinesFrom(c) = {}
                /\ \A n \in 1 .. Len(start_points) :
                      start_points[n].position # rio_xy(transform, c[1], c[2])


----------------------------------------------------------------------------
(* sample_evenly.  np.linspace(0, stop, num, dtype=int) takes the floor of *)
(* the float64 positions arange(num) * (stop / (num - 1)), the last one    *)
(* being stop itself.  The model computes the floor of the exact position; *)
(* the two agree for every list of fewer than 31 items, hence for every    *)
(* list of the model.                                                      *)

\* mutant of linspace_int: endpoint=False
linspace_int_NoEndpoint(stop, num) ==
    [m \in 1 .. num |-> ((m - 1) * stop) \div num]

\* mutant of linspace_int: one index more than asked for
linspace_int_OneMore(stop, num) ==
    [m \in 1 .. num + 1 |-> IF num = 0 THEN 0 ELSE ((m - 1) * stop) \div num]

\* mutant of linspace_int: the position is rounded to the nearest integer
linspace_int_Rounded(stop, num) ==
    [m \in 1 .. num |->
        IF num = 1 THEN 0
        ELSE (2 * (m - 1) * stop + (num - 1)) \div (2 * (num - 1))]

\* mutant of linspace_int: the step is (num - 1) / stop
linspace_int_InverseStep(stop, num) ==
    [m \in 1 .. num |->
        IF num = 1 \/ stop = 0 THEN 0
        ELSE ((m - 1) * (num - 1)) \div stop]

\* np.linspace(0, stop, num, dtype=int), for stop >= 0
linspace_int(stop, num) ==
    [m \in 1 .. num |->
        IF num = 1 THEN 0
        ELSE IF m = num THEN stop
        ELSE ((m - 1) * stop) \div (num - 1)]

\* the indices sample_evenly takes; none when it returns the list itself
SampleIndices(its, mc) ==
    IF Len(its) <= mc THEN <<>> ELSE linspace_int(Len(its) - 1, mc)

\* sample_evenly(items, max_count); a list index n of the code is n + 1 here
sample_evenly(its, mc) ==
    IF Len(its) <= mc THEN its
    ELSE LET idx == linspace_int(Len(its) - 1, mc)
         IN  [m \in DOMAIN idx |-> its[idx[m] + 1]]

InitSample ==
    /\ rows = 0
    /\ cols = 0
    /\ dem = <<>>
    /\ flow_dir = <<>>
    /\ flow_acc = <<>>
    /\ processed = <<>>
    /\ iteration = 0
    /\ changed = FALSE
    /\ i = 0
    /\ j = 0
    /\ pc = "sample"
    /\ out = <<>>
    /\ ret = <<>>
    /\ acc0 = <<>>
    /\ passes = <<>>
    /\ todo = {}
    /\ seq_acc = <<>>
    /\ proc0 = <<>>
    /\ transform = <<>>
    /\ bounds = <<>>
    /\ threshold = <<>>
    /\ spacing = 0
    /\ min_accumulation = <<>>
    /\ flow_lines = <<>>
    /\ start_points = <<>>
    /\ \E n \in 0 .. MaxLen : items = [m \in 1 .. n |-> [id |-> m - 1]]
    /\ max_count \in 0 .. MaxLen + 1
    /\ indices = <<>>
    /\ sampled = <<>>

\* sampled = sample_evenly(items, max_count)
SampleCall ==
    /\ pc = "sample"
    /\ sampled' = sample_evenly(items, max_count)
    /\ indices' = SampleIndices(items, max_count)
    /\ pc' = "sampledone"
    /\ UNCHANGED <<rows, cols, dem, flow_dir, flow_acc, processed, iteration, changed,
                   i, j, out, ret, acc0, passes, todo, seq_acc, proc0,
                   transform, bounds, threshold, spacing, min_accumulation, flow_lines,
                   start_points, items, max_count>>

NextSample == SampleCall

SpecSample == InitSample /\ [][NextSample]_vars

\* the place of the item x in items (the items of the model are distinct)
PlaceOf(x) == CHOOSE p \in 1 .. Len(items) : items[p] = x

\* the returned items are items of the list, in the order they have there
InOriginalOrder ==
    /\ \A a \in 1 .. Len(sampled) : \E p \in 1 .. Len(items) : items[p] = sampled[a]
    /\ \A a, b \in 1 .. Len(sampled) : a < b => PlaceOf(sampled[a]) < PlaceOf(sampled[b])

\* C18: for 0 <= max_count < len(items) the function returns exactly
\* max_count items, the first being the first item of the list and the last
\* being the last item of the list, in the order they have in the list.
C18_FirstAndLast ==
    (pc = "sampledone" /\ max_count < Len(items)) =>
        /\ Len(sampled) = max_count
        /\ Len(sampled) > 0 =>
              /\ sampled[1] = items[1]
              /\ sampled[Len(sampled)] = items[Len(items)]
        /\ InOriginalOrder

\* C18 as amended: the last item of the list is returned last only for
\* max_count >= 2; for max_count = 1 the one item returned is the first
\* item of the list, and for max_count = 0 nothing is returned.
C18_FirstAndLastFromTwo ==
    (pc = "sampledone" /\ max_count < Len(items)) =>
        /\ Len(sampled) = max_count
        /\ max_count >= 1 => sampled[1] = items[1]
        /\ max_count >= 2 => sampled[Len(sampled)] = items[Len(items)]
        /\ InOriginalOrder

\* C18 witness: a sample of at least two items that skips items of the list
\* and ends with its last item.
C18_Witness ==
    /\ pc = "sampledone"
    /\ max_count >= 2
    /\ Len(items) > max_count + 1
    /\ Len(sampled) = max_count
    /\ sampled[max_count] = items[Len(items)]

\* C19: the length of the returned list is min(len(items), max_count).
C19_Length ==
    pc = "sampledone" =>
        Len(sampled) = IF Len(items) < max_count THEN Len(items) ELSE max_count

\* C19 witness: a list returned whole for max_count above its length.
C19_Witness ==
    pc = "sampledone" /\ Len(items) >= 2 /\ max_count > Len(items) /\ sampled = items

\* C20: when len(items) > max_count, the m-th index taken is the evenly
\* spaced position m * (len(items) - 1) / (max_count - 1) rounded to the
\* nearest integer: it lies at most one half from the position.
C20_NearestIndex ==
    (pc = "sampledone" /\ Len(items) > max_count /\ max_count >= 2) =>
        \A m \in 0 .. max_count - 1 :
            2 * Abs(indices[m + 1] * (max_count - 1) - m * (Len(items) - 1))
                <= max_count - 1

\* C20 as amended: the index is the position rounded down; for max_count = 1
\* the one index is 0.
C20_FloorIndex ==
    (pc = "sampledone" /\ Len(items) > max_count) =>
        /\ Len(indices) = max_count
        /\ max_count = 1 => indices[1] = 0
        /\ max_count >= 2 =>
              \A m \in 0 .. max_count - 1 :
                  /\ indices[m + 1] * (max_count - 1) <= m * (Len(items) - 1)
                  /\ m * (Len(items) - 1) < (indices[m + 1] + 1) * (max_count - 1)
        /\ \A m \in 1 .. max_count : sampled[m] = items[indices[m] + 1]

\* C20 witness: an index taken for a position that lies more than one half
\* above it.
C20_Witness ==
    /\ pc = "sampledone"
    /\ Len(items) > max_count
    /\ max_count >= 3
    /\ \E m \in 1 .. max_count - 2 :
          2 * (m * (Len(items) - 1) - indices[m + 1] * (max_count - 1)) > max_count - 1

----------------------------------------------------------------------------
(* The normalizer of main: the flow lines and the start points rewritten   *)
(* into the 0-1 box of the raster's bounds.  A normalized coordinate is    *)
(* the exact quotient, kept as the pair <<numerator, denominator>>; the    *)
(* denominator is the width or the height, so that a pair with             *)
(* denominator 0 is the inf or nan of a float division by zero.  The       *)
(* bounds are in half units like the points of rio_xy; the unit cancels    *)
(* in the quotients.  The float64 quotient of two floats 0 <= n <= d is    *)
(* in [0, 1] as the exact one is, rounding being monotone.                 *)

\* mutant of x_norm: the origin of the box is not subtracted
x_norm_NoOrigin(x, minx, width) == <<x, width>>

\* (x - minx) / width
x_norm(x, minx, width) == <<x - minx, width>>

\* mutant of y_norm: no vertical flip
y_norm_NoFlip(y, miny, height) == <<y - miny, height>>

\* 1.0 - (y - miny) / height
y_norm(y, miny, height) == <<height - (y - miny), height>>

\* the body of the loop over flow_lines: the line fl after it
NormalizeLine(fl, minx, miny, width, height) ==
    [from_x_norm  |-> x_norm(fl.from[1], minx, width),
     to_x_norm    |-> x_norm(fl.to[1], minx, width),
     from_y_norm  |-> y_norm(fl.from[2], miny, height),
     to_y_norm    |-> y_norm(fl.to[2], miny, height),
     from_orig    |-> fl.from,
     to_orig      |-> fl.to,
     accumulation |-> fl.accumulation,
     direction    |-> fl.direction]

\* the body of the loop over start_points: the point p after it
NormalizePoint(p, minx, miny, width, height) ==
    [position_orig |-> p.position,
     position_norm |-> <<x_norm(p.position[1], minx, width),
                         y_norm(p.position[2], miny, height)>>,
     weight        |-> p.weight]

\* the first flow line when the division by height raises: its two x
\* coordinates are already stored, 'from' and 'to' are still there
HalfNormalizedLine(fl, minx, width) ==
    [from         |-> fl.from,
     to           |-> fl.to,
     accumulation |-> fl.accumulation,
     direction    |-> fl.direction,
     from_x_norm  |-> x_norm(fl.from[1], minx, width),
     to_x_norm    |-> x_norm(fl.to[1], minx, width)]

\* a side of the raster has at most MaxNormSide cells
MaxNormSide == 2
\* a pixel is at most MaxPx wide and at most MaxPx high; 0 is the
\* degenerate transform
MaxPx == 1

\* the points the start points are drawn from: the pixel centres, the
\* pixel corners and the edge midpoints of the raster and of one ring of
\* pixels around it
NormPoints(T, r, k) ==
    {<<2 * T.c + T.a * kx, 2 * T.f + T.e * ky>> :
        kx \in -1 .. 2 * k + 1, ky \in -1 .. 2 * r + 1}

\* the flow lines extract_flow_vectors can append for a raster of r rows
\* and k columns: from a cell to a neighbour inside the grid
NormLines(T, r, k) ==
    {[from         |-> rio_xy(T, c[1], c[2]),
      to           |-> rio_xy(T, c[1] + extract_dir_to_offset[code][1],
                                 c[2] + extract_dir_to_offset[code][2]),
      accumulation |-> <<1>>,
      direction    |-> code] :
        <<c, code>> \in {x \in Cells(r, k) \X DOMAIN extract_dir_to_offset :
                            InBounds(r, k, <<x[1][1] + extract_dir_to_offset[x[2]][1],
                                             x[1][2] + extract_dir_to_offset[x[2]][2]>>)}}

\* main after create_flow_start_points: at most one flow line and at most
\* one start point
InitNorm ==
    /\ rows \in 1 .. MaxNormSide
    /\ cols \in 1 .. MaxNormSide
    /\ dem = <<>>
    /\ flow_dir = <<>>
    /\ flow_acc = <<>>
    /\ processed = <<>>
    /\ iteration = 0
    /\ changed = FALSE
    /\ i = 0
    /\ j = 0
    /\ pc = "seeded"
    /\ out = <<>>
    /\ ret = <<>>
    /\ acc0 = <<>>
    /\ passes = <<>>
    /\ todo = {}
    /\ seq_acc = <<>>
    /\ proc0 = <<>>
    /\ \E pa \in 0 .. MaxPx, pe \in 0 .. MaxPx :
           transform = [a |-> pa, b |-> 0, c |-> 10, d |-> 0, e |-> -pe, f |-> 20]
    /\ bounds = dataset_bounds(transform, rows, cols)
    /\ threshold = <<1, 1>>
    /\ spacing = 2
    /\ min_accumulation = <<1, 2>>
    /\ flow_lines \in {<<>>} \cup {<<fl>> : fl \in NormLines(transform, rows, cols)}
    /\ start_points \in {<<>>} \cup
           {<<[position |-> q, weight |-> <<1>>]>> : q \in NormPoints(transform, rows, cols)}
    /\ items = <<>>
    /\ max_count = 0
    /\ indices = <<>>
    /\ sampled = <<>>

\* the two loops of main that normalize flow_lines and start_points.  With
\* a width or a height of zero the first division raises ZeroDivisionError
\* when the coordinates are Python floats, and gives inf or nan when they
\* are numpy scalars: that depends on the rasterio installed.
Normalize ==
    /\ pc = "seeded"
    /\ LET minx   == bounds.left
           miny   == bounds.bottom
           maxx   == bounds.right
           maxy   == bounds.top
           width  == maxx - minx
           height == maxy - miny
       IN  \/ /\ flow_lines' = [n \in DOMAIN flow_lines |->
                                   NormalizeLine(flow_lines[n], minx, miny, width, height)]
              /\ start_points' = [n \in DOMAIN start_points |->
                                   NormalizePoint(start_points[n], minx, miny, width, height)]
              /\ pc' = "normalized"
           \/ /\ width = 0 \/ height = 0
              /\ flow_lines # <<>> \/ start_points # <<>>
              /\ flow_lines' = IF flow_lines # <<>> /\ width # 0
                               THEN [flow_lines EXCEPT
                                       ![1] = HalfNormalizedLine(flow_lines[1], minx, width)]
                               ELSE flow_lines
              /\ start_points' = start_points
              /\ pc' = "crashed"
    /\ UNCHANGED <<rows, cols, dem, flow_dir, flow_acc, processed, iteration, changed,
                   i, j, out, ret, acc0, passes, todo, seq_acc, proc0,
                   transform, bounds, threshold, spacing, min_accumulation,
                   items, max_count, indices, sampled>>

NextNorm == Normalize

SpecNorm == InitNorm /\ [][NextNorm]_vars

\* a normalized coordinate is a number of [0, 1]
InUnit(q) ==
    /\ q[2] # 0
    /\ IF q[2] > 0 THEN 0 <= q[1] /\ q[1] <= q[2]
                   ELSE q[2] <= q[1] /\ q[1] <= 0

\* the point q is inside the box of the raster, its border included
InsideBox(q) ==
    /\ bounds.left <= q[1] /\ q[1] <= bounds.right
    /\ bounds.bottom <= q[2] /\ q[2] <= bounds.top

\* C21: with a box of positive width and height, a point inside the box
\* has both normalized coordinates in [0, 1]; the end points of a flow line
\* extracted from the raster and the pixel centres of its cells are such
\* points.
C21_InUnitBox ==
    (pc = "normalized" /\ bounds.right > bounds.left /\ bounds.top > bounds.bottom) =>
        /\ \A n \in DOMAIN start_points :
               InsideBox(start_points[n].position_orig) =>
                   /\ InUnit(start_points[n].position_norm[1])
                   /\ InUnit(start_points[n].position_norm[2])
        /\ \A n \in DOMAIN flow_lines :
               /\ InsideBox(flow_lines[n].from_orig) => /\ InUnit(flow_lines[n].from_x_norm)
                                                        /\ InUnit(flow_lines[n].from_y_norm)
               /\ InsideBox(flow_lines[n].to_orig) => /\ InUnit(flow_lines[n].to_x_norm)
                                                      /\ InUnit(flow_lines[n].to_y_norm)
        /\ \A n \in DOMAIN flow_lines :
               InsideBox(flow_lines[n].from_orig) /\ InsideBox(flow_lines[n].to_orig)
        /\ \A c \in Cells(rows, cols) : InsideBox(rio_xy(transform, c[1], c[2]))

\* a raster of two columns and two rows: a flow line into the last row
\* and a start point on the top right corner of the box are normalized
C21_Witness ==
    /\ pc = "normalized" /\ rows = 2 /\ cols = 2
    /\ bounds.right > bounds.left /\ bounds.top > bounds.bottom
    /\ Len(flow_lines) = 1 /\ Len(start_points) = 1
    /\ flow_lines[1].to_orig = rio_xy(transform, 1, 1)
    /\ start_points[1].position_orig = <<bounds.right, bounds.top>>
    /\ start_points[1].position_norm = <<<<bounds.right - bounds.left,
                                           bounds.right - bounds.left>>,
                                         <<0, bounds.top - bounds.bottom>>>>

\* the normalized points of the state, each with the point it came from:
\* <<original point, <<x_norm, y_norm>>>>
NormalizedPoints ==
    {<<flow_lines[n].from_orig, <<flow_lines[n].from_x_norm, flow_lines[n].from_y_norm>>>> :
        n \in DOMAIN flow_lines}
    \cup {<<flow_lines[n].to_orig, <<flow_lines[n].to_x_norm, flow_lines[n].to_y_norm>>>> :
        n \in DOMAIN flow_lines}
    \cup {<<start_points[n].position_orig, start_points[n].position_norm>> :
        n \in DOMAIN start_points}

\* the quotient a is below the quotient b, both of positive denominator
QuotLT(a, b) == a[1] * b[2] < b[1] * a[2]

\* C22: the bottom-left corner of the box is normalized to (0, 1), the
\* top-right corner to (1, 0), and of two points with the same x the one
\* with the larger y has the smaller y_norm.
C22_VerticalFlip ==
    (pc = "normalized" /\ bounds.right > bounds.left /\ bounds.top > bounds.bottom) =>
        /\ \A q \in NormalizedPoints :
               /\ q[1] = <<bounds.left, bounds.bottom>> =>
                      q[2][1][1] = 0 /\ q[2][2][1] = q[2][2][2]
               /\ q[1] = <<bounds.right, bounds.top>> =>
                      q[2][1][1] = q[2][1][2] /\ q[2][2][1] = 0
        /\ \A q1 \in NormalizedPoints, q2 \in NormalizedPoints :
               (q1[1][1] = q2[1][1] /\ q1[1][2] > q2[1][2]) => QuotLT(q1[2][2], q2[2][2])

\* the start point is the bottom-left corner of the box and the flow
\* line runs north, from the last row of the raster to the row above
C22_Witness ==
    /\ pc = "normalized"
    /\ bounds.right > bounds.left /\ bounds.top > bounds.bottom
    /\ Len(flow_lines) = 1 /\ Len(start_points) = 1
    /\ start_points[1].position_orig = <<bounds.left, bounds.bottom>>
    /\ start_points[1].position_norm[2][1] = bounds.top - bounds.bottom
    /\ flow_lines[1].direction = 64
    /\ flow_lines[1].to_orig[2] > flow_lines[1].from_orig[2]
    /\ QuotLT(flow_lines[1].to_y_norm, flow_lines[1].from_y_norm)

\* C23: with a box of zero width or zero height the normalizer divides
\* nothing by zero: it ends in a configuration error, no flow line and no
\* start point has a normalized coordinate, and none is half rewritten.
C23_DegenerateRejected ==
    (pc # "seeded" /\ (bounds.right = bounds.left \/ bounds.top = bounds.bottom)) =>
        /\ pc = "configuration_error"
        /\ \A n \in DOMAIN flow_lines :
               DOMAIN flow_lines[n] = {"from", "to", "accumulation", "direction"}
        /\ \A n \in DOMAIN start_points :
               DOMAIN start_points[n] = {"position", "weight"}

----------------------------------------------------------------------------
(* Frame of the stages of main *)

\* C24: calculate_flow_accumulation leaves the direction field as it was,
\* and extract_flow_vectors and create_flow_start_points leave the
\* direction field and the accumulation field as they were.
C24_UpstreamFieldsKept ==
    [][/\ pc \in {"d8done", "sweep", "endpass", "clip"} => flow_dir' = flow_dir
       /\ pc \in {"done", "extracted"} =>
              flow_dir' = flow_dir /\ flow_acc' = flow_acc /\ ret' = ret]_vars

\* the three stages have run on a raster that has a flow line and a start
\* point, and the accumulation field is not the field of ones it began as
C24_Witness ==
    /\ pc = "seeded"
    /\ flow_lines # <<>> /\ start_points # <<>>
    /\ \E c \in DOMAIN flow_dir : flow_dir[c] # 0
    /\ \E c \in DOMAIN ret : ret[c] > 1

----------------------------------------------------------------------------
(* The passes of calculate_flow_accumulation and the settled flags *)

\* C25 as claimed: a pass in which a cell has added into its downstream
\* cell is counted as changed, and a pass before the 50th that ends the
\* loop leaves every cell with a non-zero direction settled.
C25_StopsWhenSettled ==
    /\ (pc \in {"sweep", "endpass"} /\ flow_acc # acc0) => changed
    /\ (pc = "endpass" /\ ~changed /\ iteration < max_iterations - 1) =>
           \A c \in Cells(rows, cols) : flow_dir[c] # 0 => processed[c]

\* C25 amended: a pass in which a cell has added into its downstream cell
\* is counted as changed, and a pass before the 50th that ends the loop
\* leaves every cell with a non-zero direction and a downstream cell
\* inside the grid settled.
C25_StopsWhenInGridSettled ==
    /\ (pc \in {"sweep", "endpass"} /\ flow_acc # acc0) => changed
    /\ (pc = "endpass" /\ ~changed /\ iteration < max_iterations - 1) =>
           \A c \in Cells(rows, cols) :
               (flow_dir[c] # 0 /\ Downstream(flow_dir, rows, cols, c) # c) => processed[c]

\* a pass after changed ones ends the loop before the 50th: a cell that
\* has added in earlier passes is settled now
C25_Witness ==
    /\ pc = "endpass" /\ ~changed
    /\ 0 < iteration /\ iteration < max_iterations - 1
    /\ AllChanged
    /\ \E c \in Cells(rows, cols) :
           /\ flow_dir[c] # 0 /\ Downstream(flow_dir, rows, cols, c) # c
           /\ processed[c]
           /\ flow_acc[Downstream(flow_dir, rows, cols, c)] > 1000000

----------------------------------------------------------------------------
(* The zeros and the targets of a direction field of D8 *)

C27_TargetsInGrid ==
    /\ HasFlowDir =>
           \A c \in Cells(rows, cols) :
               flow_dir[c] # 0 =>
                   /\ 1 <= c[1] /\ c[1] <= rows - 2 /\ 1 <= c[2] /\ c[2] <= cols - 2
                   /\ flow_dir[c] \in DOMAIN dir_to_offset
                   /\ InBounds(rows, cols, <<c[1] + dir_to_offset[flow_dir[c]][1],
                                             c[2] + dir_to_offset[flow_dir[c]][2]>>)
                   /\ flow_dir[c] \in DOMAIN extract_dir_to_offset
                   /\ InBounds(rows, cols, <<c[1] + extract_dir_to_offset[flow_dir[c]][1],
                                             c[2] + extract_dir_to_offset[flow_dir[c]][2]>>)
    /\ pc \in {"extracted", "seeded"} =>
           Len(flow_lines) = Cardinality({c \in Cells(rows, cols) : flow_dir[c] # 0})

\* the flow lines are extracted from a field with two coded cells, one of
\* them pointing at a border cell
C27_Witness ==
    /\ pc = "extracted"
    /\ Len(flow_lines) >= 2
    /\ \E c \in Cells(rows, cols) :
           /\ flow_dir[c] # 0
           /\ LET n == <<c[1] + dir_to_offset[flow_dir[c]][1],
                         c[2] + dir_to_offset[flow_dir[c]][2]>>
              IN  n[1] = 0 \/ n[1] = rows - 1 \/ n[2] = 0 \/ n[2] = cols - 1

\* the direction fields with one source more than MaxSources and a cycle
\* among the sources: the cells of the cycle settle while the further
\* source keeps the passes changed, so that settled cells are visited again
CyclicFields(r, k) ==
    {fd \in [Cells(r, k) -> Codes] :
        /\ Cardinality({c \in Cells(r, k) : fd[c] # 0}) = MaxSources + 1
        /\ ~Acyclic(fd, r, k)}

\* a call of calculate_flow_accumulation on a field of FlowDirFields or of
\* CyclicFields
InitSettle ==
    /\ \E s \in Shapes(MaxCells) : rows = s[1] /\ cols = s[2]
    /\ dem = <<>>
    /\ flow_dir \in FlowDirFields(rows, cols) \cup CyclicFields(rows, cols)
    /\ flow_acc = Ones(rows, cols)
    /\ processed = NoneProcessed(rows, cols)
    /\ iteration = 0
    /\ changed = FALSE
    /\ i = 0
    /\ j = 0
    /\ pc = "sweep"
    /\ out = <<>>
    /\ ret = <<>>
    /\ acc0 = Ones(rows, cols)
    /\ passes = <<>>
    /\ todo = {}
    /\ seq_acc = <<>>
    /\ proc0 = <<>>
    /\ XIdle

SpecSettle == InitSettle /\ [][Next]_vars

\* C28: a settled cell stays settled, and the visit of a cell that is
\* settled, or that the visit settles, adds nothing to any cell.
C28_SettledForGood ==
    [][/\ \A c \in Cells(rows, cols) : processed[c] => processed'[c]
       /\ (pc = "sweep" /\ processed'[<<i, j>>]) => flow_acc' = flow_acc]_vars

\* a cell settled in an earlier pass is under the sweep again
C28_Witness ==
    /\ pc = "sweep"
    /\ processed[<<i, j>>]
    /\ flow_dir[<<i, j>>] # 0
    /\ Len(passes) >= 2
    /\ \E n \in 1 .. Len(passes) - 1 : passes[n] /\ passes[n + 1]
    /\ acc0[Downstream(flow_dir, rows, cols, <<i, j>>)] > 1000000

----------------------------------------------------------------------------
(* The three tables of the direction codes *)

\* C29: for each of the eight codes the two dir_to_offset tables give the
\* offset at which the list neighbors of D8 holds the code; so the cell
\* calculate_flow_accumulation follows from a coded cell, and the end of
\* the flow line extracted from it, is the neighbour D8 chose for it.
C29_SameOffsets ==
    /\ \A n \in 1 .. Len(neighbors) :
           /\ dir_to_offset[neighbors[n][3]] = <<neighbors[n][1], neighbors[n][2]>>
           /\ extract_dir_to_offset[neighbors[n][3]] = <<neighbors[n][1], neighbors[n][2]>>
    /\ HasFlowDir =>
           \A c \in Cells(rows, cols) :
               flow_dir[c] # 0 => Downstream(flow_dir, rows, cols, c) = CodeTarget(c)
    /\ pc \in {"extracted", "seeded"} =>
           \A n \in 1 .. Len(flow_lines) :
               \E c \in Cells(rows, cols) :
                   /\ flow_dir[c] = flow_lines[n].direction
                   /\ flow_lines[n].from = rio_xy(transform, c[1], c[2])
                   /\ flow_lines[n].to = rio_xy(transform, CodeTarget(c)[1], CodeTarget(c)[2])

\* the accumulation has followed a cell coded east or south-west, and the
\* flow line of the cell is extracted
C29_Witness ==
    /\ pc = "extracted"
    /\ \E n \in 1 .. Len(flow_lines) :
           /\ flow_lines[n].direction \in {1, 8}
           /\ \E c \in Cells(rows, cols) :
                  /\ flow_lines[n].from = rio_xy(transform, c[1], c[2])
                  /\ ret[CodeTarget(c)] > 1

----------------------------------------------------------------------------
(* The indices of sample_evenly *)

\* C30: for 1 <= max_count < len(items) the indices sample_evenly takes
\* are strictly increasing, and no item of the list is returned twice.
C30_StrictlyIncreasing ==
    (pc = "sampledone" /\ 1 <= max_count /\ max_count < Len(items)) =>
        /\ Len(indices) = max_count
        /\ \A a \in 1 .. Len(indices), b \in 1 .. Len(indices) :
               a < b => indices[a] < indices[b]
        /\ \A a \in 1 .. Len(sampled), b \in 1 .. Len(sampled) :
               a # b => sampled[a] # sampled[b]

\* all but one of the items of a list are asked for: the step between two
\* indices is just above 1
C30_Witness ==
    /\ pc = "sampledone"
    /\ Len(items) >= 4
    /\ max_count = Len(items) - 1
    /\ Len(sampled) = max_count
    /\ \E a \in 1 .. Len(indices) - 1 : indices[a + 1] = indices[a] + 2
    /\ \E a \in 1 .. Len(indices) - 1 : indices[a + 1] = indices[a] + 1
====
